---- MODULE Spec2Model ----
(***************************************************************************)
(* A model of server/server.py: the Gmail credential lifecycle of          *)
(* get_gmail_service, the send_email tool built on it, the Apollo          *)
(* enrichment tools built on _enrich_person, and the HTML body composed by *)
(* send_email.                                                             *)
(*                                                                         *)
(* Two callers (two server processes started from the same directory, or   *)
(* two in-flight requests of one) share the token file token.json.  Spec   *)
(* runs one call at a time to completion; SpecConc interleaves the steps   *)
(* of two calls freely; SpecCompose applies the body composition of        *)
(* send_email to every bounded body.                                       *)
(***************************************************************************)
EXTENDS Integers, Sequences, FiniteSets, TLC

VARIABLES
    now,        \* the wall clock that creds.expired reads
    tokenFile,  \* content of TOKEN_PATH
    credFile,   \* os.path.exists(CREDENTIALS_PATH)
    apiKey,     \* truthiness of APOLLO_API_KEY
    pc,         \* per caller: the line of server.py it is about to execute
    creds,      \* per caller: the local variable creds of get_gmail_service
    did,        \* per caller: what the current call has done so far (history)
    atLoad,     \* per caller: state of the token file found at line 67 (history)
    chk,        \* per caller: clock value when line 70 was evaluated (history)
    gs,         \* per caller: outcome of get_gmail_service ("none" while running)
    resp,       \* per caller: what requests.post produced for the current lookup
    res,        \* per caller: what the tool handed back to the framework
    last,       \* record obtained by the last completed refreshing/acquiring call (history)
    body,       \* the plain-text body given to send_email
    html_body   \* the HTML body composed from it

vars == <<now, tokenFile, credFile, apiKey, pc, creds, did, atLoad, chk, gs,
          resp, res, last, body, html_body>>

authVars == <<now, tokenFile, credFile, apiKey, pc, creds, did, atLoad, chk, gs,
              resp, res, last>>

----------------------------------------------------------------------------
(* Bounds *)

MaxTime == 2     \* the clock stops ticking here
TTL == 1         \* lifetime of an access token, in ticks
MaxLen == 4      \* longest body composed

Procs == {"A", "B"}   \* the concurrent callers

----------------------------------------------------------------------------
(* Credential records and the token file *)

NoCreds == [tok |-> -1, exp |-> -1, rt |-> FALSE]

NoFile == [st |-> "absent", token |-> -1, expiry |-> -1, refresh_token |-> "null"]

\* open(TOKEN_PATH, "w") has truncated the file and nothing is written yet
EmptyFile == [st |-> "empty", token |-> -1, expiry |-> -1, refresh_token |-> "null"]

\* two unsynchronised writers have overlaid their JSON texts
GarbledFile == [st |-> "garbled", token |-> -1, expiry |-> -1, refresh_token |-> "null"]

\* creds.to_json(): the text written to token.json
to_json(c) ==
    [st |-> "json", token |-> c.tok, expiry |-> c.exp,
     refresh_token |-> IF c.rt THEN "rt" ELSE "null"]

\* Credentials.from_authorized_user_file applied to a well-formed file
from_authorized_user_file(f) ==
    [tok |-> f.token, exp |-> f.expiry, rt |-> (f.refresh_token = "rt")]

\* creds.expired / creds.valid at clock value t
expired(c, t) == t >= c.exp
valid(c, t) == c.tok >= 0 /\ ~expired(c, t)

\* a credential minted at clock value t
Minted(t, r) == [tok |-> t, exp |-> t + TTL, rt |-> r]

----------------------------------------------------------------------------
(* Tool results: a returned string is the sequence of the parts of its     *)
(* f-string; an exception that leaves the tool function is kind "raise".   *)

NoRes == [kind |-> "none", val |-> <<>>]
Str(parts) == [kind |-> "str", val |-> parts]
Raise(parts) == [kind |-> "raise", val |-> parts]

----------------------------------------------------------------------------
(* send_email's exception handlers, lines 117-122 *)

send_email_except(exc, detail) ==
    IF exc = "HttpError"
    THEN Str(<<"Failed to send email. Error: ", detail>>)
    ELSE Str(<<"An unexpected error occurred: ", detail>>)

\* get_gmail_service raises exc at caller p: the exception unwinds to the
\* handlers of send_email, which return a string.
Raised(p, exc, detail) ==
    /\ gs' = [gs EXCEPT ![p] = exc]
    /\ res' = [res EXCEPT ![p] = send_email_except(exc, detail)]
    /\ pc' = [pc EXCEPT ![p] = "done"]

----------------------------------------------------------------------------
(* get_gmail_service, lines 59-87, entered from send_email line 96 *)

\* the framework dispatches a send_email call to caller p
CallSendEmail(p) ==
    /\ pc[p] = "idle"
    /\ pc' = [pc EXCEPT ![p] = "L67"]
    /\ UNCHANGED <<now, tokenFile, credFile, apiKey, creds, did, atLoad, chk,
                   gs, resp, res, last, body, html_body>>

\* lines 63-68: creds = None; load the token file when it exists
LoadToken(p) ==
    /\ pc[p] = "L67"
    /\ atLoad' = [atLoad EXCEPT ![p] = tokenFile.st]
    /\ CASE tokenFile.st = "absent" ->
              /\ creds' = [creds EXCEPT ![p] = NoCreds]
              /\ pc' = [pc EXCEPT ![p] = "L70"]
              /\ UNCHANGED <<gs, res>>
         [] tokenFile.st = "json" ->
              /\ creds' = [creds EXCEPT ![p] = from_authorized_user_file(tokenFile)]
              /\ pc' = [pc EXCEPT ![p] = "L70"]
              /\ UNCHANGED <<gs, res>>
         [] OTHER ->
              \* an empty or overlaid file is not JSON: json.load raises
              /\ Raised(p, "JSONDecodeError", "Expecting value")
              /\ UNCHANGED creds
    /\ UNCHANGED <<now, tokenFile, credFile, apiKey, did, chk, resp, last,
                   body, html_body>>

\* CheckValid with lines 83-85 dedented out of the if of line 70
CheckValidAlwaysSave(p) ==
    /\ pc[p] = "L70"
    /\ chk' = [chk EXCEPT ![p] = now]
    /\ pc' = [pc EXCEPT ![p] =
                IF creds[p] # NoCreds /\ valid(creds[p], now) THEN "L84"
                ELSE IF creds[p] # NoCreds /\ expired(creds[p], now) /\ creds[p].rt
                     THEN "L72"
                     ELSE "L74"]
    /\ UNCHANGED <<now, tokenFile, credFile, apiKey, creds, did, atLoad, gs,
                   resp, res, last, body, html_body>>

\* lines 70-71: which branch the call takes
CheckValid(p) ==
    /\ pc[p] = "L70"
    /\ chk' = [chk EXCEPT ![p] = now]
    /\ pc' = [pc EXCEPT ![p] =
                IF creds[p] # NoCreds /\ valid(creds[p], now) THEN "L87"
                ELSE IF creds[p] # NoCreds /\ expired(creds[p], now) /\ creds[p].rt
                     THEN "L72"
                     ELSE "L74"]
    /\ UNCHANGED <<now, tokenFile, credFile, apiKey, creds, did, atLoad, gs,
                   resp, res, last, body, html_body>>

\* Refresh with the else branch of line 73 entered after a successful refresh
RefreshThenAcquire(p) ==
    /\ pc[p] = "L72"
    /\ \/ /\ did' = [did EXCEPT ![p] = @ \cup {"refresh", "refreshOk"}]
          /\ creds' = [creds EXCEPT ![p] = Minted(now, TRUE)]
          /\ pc' = [pc EXCEPT ![p] = "L74"]
          /\ UNCHANGED <<gs, res>>
       \/ /\ did' = [did EXCEPT ![p] = @ \cup {"refresh"}]
          /\ Raised(p, "RefreshError", "invalid_grant")
          /\ UNCHANGED creds
    /\ UNCHANGED <<now, tokenFile, credFile, apiKey, atLoad, chk, resp, last,
                   body, html_body>>

\* line 72: creds.refresh(Request()), a network call that succeeds or raises
Refresh(p) ==
    /\ pc[p] = "L72"
    /\ \/ /\ did' = [did EXCEPT ![p] = @ \cup {"refresh", "refreshOk"}]
          /\ creds' = [creds EXCEPT ![p] = Minted(now, TRUE)]
          /\ pc' = [pc EXCEPT ![p] = "L84"]
          /\ UNCHANGED <<gs, res>>
       \/ /\ did' = [did EXCEPT ![p] = @ \cup {"refresh"}]
          /\ Raised(p, "RefreshError", "invalid_grant")
          /\ UNCHANGED creds
    /\ UNCHANGED <<now, tokenFile, credFile, apiKey, atLoad, chk, resp, last,
                   body, html_body>>

\* BeginFlow without the existence check of line 74
BeginFlowUnchecked(p) ==
    /\ pc[p] = "L74"
    /\ did' = [did EXCEPT ![p] = @ \cup {"flow"}]
    /\ pc' = [pc EXCEPT ![p] = "L82"]
    /\ UNCHANGED <<now, tokenFile, credFile, apiKey, creds, atLoad, chk, gs,
                   resp, res, last, body, html_body>>

\* lines 74-82, first half: the client-secret check, then run_local_server
\* binds its callback endpoint and waits for the redirect
BeginFlow(p) ==
    /\ pc[p] = "L74"
    /\ IF ~credFile
       THEN /\ Raised(p, "FileNotFoundError", "Error: 'credentials.json' not found.")
            /\ UNCHANGED did
       ELSE /\ did' = [did EXCEPT ![p] = @ \cup {"flow"}]
            /\ pc' = [pc EXCEPT ![p] = "L82"]
            /\ UNCHANGED <<gs, res>>
    /\ UNCHANGED <<now, tokenFile, credFile, apiKey, creds, atLoad, chk, resp,
                   last, body, html_body>>

\* line 82, second half: the consent exchange completes or raises
EndFlow(p) ==
    /\ pc[p] = "L82"
    /\ \/ \E r \in BOOLEAN :
            /\ did' = [did EXCEPT ![p] = @ \cup {"flowOk"}]
            /\ creds' = [creds EXCEPT ![p] = Minted(now, r)]
            /\ pc' = [pc EXCEPT ![p] = "L84"]
            /\ UNCHANGED <<gs, res>>
       \/ /\ Raised(p, "AccessDeniedError", "access_denied")
          /\ UNCHANGED <<did, creds>>
    /\ UNCHANGED <<now, tokenFile, credFile, apiKey, atLoad, chk, resp, last,
                   body, html_body>>

\* the save of lines 84-85 done only for an acquired credential, not for a
\* refreshed one
OpenTokenAcquiredOnly(p) ==
    /\ pc[p] = "L84"
    /\ IF "flowOk" \in did[p]
       THEN /\ tokenFile' = EmptyFile
            /\ did' = [did EXCEPT ![p] = @ \cup {"open"}]
            /\ pc' = [pc EXCEPT ![p] = "L85"]
       ELSE /\ pc' = [pc EXCEPT ![p] = "L87"]
            /\ UNCHANGED <<tokenFile, did>>
    /\ UNCHANGED <<now, credFile, apiKey, creds, atLoad, chk, gs, resp, res,
                   last, body, html_body>>

\* line 84: open(TOKEN_PATH, "w") truncates the file
OpenToken(p) ==
    /\ pc[p] = "L84"
    /\ tokenFile' = EmptyFile
    /\ did' = [did EXCEPT ![p] = @ \cup {"open"}]
    /\ pc' = [pc EXCEPT ![p] = "L85"]
    /\ UNCHANGED <<now, credFile, apiKey, creds, atLoad, chk, gs, resp, res,
                   last, body, html_body>>

\* line 85 and the end of the with block: the text is written and the file
\* closed.  When another writer has written since this one truncated, both
\* texts start at offset 0: the later one wins or the two are overlaid.
WriteToken(p) ==
    /\ pc[p] = "L85"
    /\ \/ tokenFile' = to_json(creds[p])
       \/ /\ tokenFile.st # "empty"
          /\ tokenFile' = GarbledFile
    /\ did' = [did EXCEPT ![p] = @ \cup {"write"}]
    /\ pc' = [pc EXCEPT ![p] = "L87"]
    /\ UNCHANGED <<now, credFile, apiKey, creds, atLoad, chk, gs, resp, res,
                   last, body, html_body>>

\* line 87: build("gmail", "v1", credentials=creds) returns the service or raises
Build(p) ==
    /\ pc[p] = "L87"
    /\ did' = [did EXCEPT ![p] = @ \cup {"build"}]
    /\ \/ /\ gs' = [gs EXCEPT ![p] = "ok"]
          /\ pc' = [pc EXCEPT ![p] = "L97"]
          /\ UNCHANGED res
       \/ Raised(p, "HttpError", "discovery")
       \/ Raised(p, "TransportError", "connection")
    /\ UNCHANGED <<now, tokenFile, credFile, apiKey, creds, atLoad, chk, resp,
                   last, body, html_body>>

----------------------------------------------------------------------------
(* The body composed by send_email, lines 99-102.  A string is the         *)
(* sequence of its characters.                                             *)

Alphabet == {"\n", "<", "b", "r", ">", "&"}

RECURSIVE SeqsUpTo(_)
SeqsUpTo(n) ==
    IF n = 0 THEN {<<>>}
    ELSE LET shorter == SeqsUpTo(n - 1)
         IN  shorter \cup {Append(s, c) : s \in {t \in shorter : Len(t) = n - 1},
                                          c \in Alphabet}

Bodies == SeqsUpTo(MaxLen)

\* html.escape of one character (quote=True)
escape_char(c) ==
    CASE c = "&" -> <<"&", "a", "m", "p", ";">>
      [] c = "<" -> <<"&", "l", "t", ";">>
      [] c = ">" -> <<"&", "g", "t", ";">>
      [] c = "\"" -> <<"&", "q", "u", "o", "t", ";">>
      [] c = "'" -> <<"&", "#", "x", "2", "7", ";">>
      [] OTHER -> <<c>>

\* the body used unescaped
no_escape(s) == s

\* line 100: html.escape(body)
RECURSIVE html_escape(_)
html_escape(s) ==
    IF s = <<>> THEN <<>> ELSE escape_char(Head(s)) \o html_escape(Tail(s))

BR == <<"<", "b", "r", ">">>

\* line 101: escaped_body.replace('\n', '<br>')
RECURSIVE replace_newlines(_)
replace_newlines(s) ==
    IF s = <<>> THEN <<>>
    ELSE (IF Head(s) = "\n" THEN BR ELSE <<Head(s)>>) \o replace_newlines(Tail(s))

HtmlOpen == <<"<", "h", "t", "m", "l", ">", "<", "b", "o", "d", "y", ">">>
HtmlClose == <<"<", "b", "r", ">", "<", "/", "b", "o", "d", "y", ">",
               "<", "/", "h", "t", "m", "l", ">">>

\* line 102: f"<html><body>{html_formatted_body}<br></body></html>"
wrap_html(formatted) == HtmlOpen \o formatted \o HtmlClose

\* lines 100-102
compose_html(b) == wrap_html(replace_newlines(html_escape(b)))

----------------------------------------------------------------------------
(* send_email after get_gmail_service returned, lines 97-122 *)

\* The message composed at lines 97-111 is a local of the call, dropped when
\* the call returns, and no returned string depends on it: the step keeps
\* the outcome of messages().send().execute() only.  Compose applies lines
\* 99-102 to every body.
Send(p) ==
    /\ pc[p] = "L97"
    /\ \/ res' = [res EXCEPT ![p] =
                    Str(<<"Successfully sent email to ", "recipient",
                          " with Message ID: ", "id">>)]
       \/ res' = [res EXCEPT ![p] = send_email_except("HttpError", "HttpError 403")]
       \/ res' = [res EXCEPT ![p] = send_email_except("TransportError", "connection")]
    /\ pc' = [pc EXCEPT ![p] = "done"]
    /\ UNCHANGED <<now, tokenFile, credFile, apiKey, creds, did, atLoad, chk,
                   gs, resp, last, body, html_body>>

----------------------------------------------------------------------------
(* The enrichment tools, lines 127-178 *)

NotFound == <<"Email not found for the given details.">>

Response(k, d, hp, pe, he, em) ==
    [kind |-> k, detail |-> d, hasPerson |-> hp, person |-> pe,
     hasEmail |-> he, email |-> em, query |-> {}]

NoResp == Response("none", "", FALSE, "null", FALSE, "null")

\* the keys of the params mapping posted as the request's JSON
NameAndCompanyKeys == {"first_name", "last_name", "organization_name"}
LinkedinKeys == {"person_linkedin_url"}

\* what requests.post and response.json() can produce
Responses ==
    {Response("neterr", d, FALSE, "null", FALSE, "null") :
        d \in {"timed out"}}
    \cup {Response("httperr", d, FALSE, "null", FALSE, "null") :
        d \in {"500 Server Error"}}
    \cup {Response("badjson", "", FALSE, "null", FALSE, "null")}
    \cup {Response("ok", "", FALSE, "null", FALSE, "null")}
    \cup {Response("ok", "", TRUE, pe, FALSE, "null") : pe \in {"null", "empty", "dict"}}
    \cup {Response("ok", "", TRUE, "dict", TRUE, em) : em \in {"null", "", "a@b.com"}}

\* Python truthiness of data["person"] and of data["person"]["email"]
truthy_person(r) == r.person = "dict"
\* the email tested against None only
email_not_none(r) == r.email # "null"

truthy_email(r) == r.email \notin {"null", ""}

\* lines 141-156: the request has been made and produced r
map_response(r) ==
    CASE r.kind = "ok" ->
           IF r.hasPerson /\ truthy_person(r) /\ r.hasEmail /\ truthy_email(r)
           THEN {Str(<<"Email found: ", r.email>>)}
           ELSE {Str(NotFound)}
      [] r.kind = "httperr" ->
           {Str(<<"HTTP error occurred: ", r.detail, " - ", "response.text">>)}
      [] r.kind = "neterr" ->
           {Str(<<"Request error occurred: ", r.detail>>)}
      [] OTHER ->
           \* response.json() raises: a RequestException in requests >= 2.27,
           \* a plain ValueError before
           {Str(<<"Request error occurred: ", "Expecting value">>),
            Str(<<"An unexpected error occurred: ", "Expecting value">>)}

\* lines 127-156: _enrich_person(params) run by caller p
enrich_person(p, params) ==
    /\ pc[p] = "idle"
    /\ IF ~apiKey
       THEN /\ res' = [res EXCEPT ![p] =
                         Raise(<<"ValueError",
                                 "APOLLO_API_KEY environment variable not set.">>)]
            /\ UNCHANGED resp
       ELSE \E r \in Responses :
              /\ resp' = [resp EXCEPT ![p] = [r EXCEPT !.query = params]]
              /\ \E out \in map_response(r) : res' = [res EXCEPT ![p] = out]
    /\ pc' = [pc EXCEPT ![p] = "done"]
    /\ UNCHANGED <<now, tokenFile, credFile, apiKey, creds, did, atLoad, chk,
                   gs, last, body, html_body>>

\* lines 158-168
find_email_by_name_and_company(p) == enrich_person(p, NameAndCompanyKeys)

\* lines 170-178
find_email_by_linkedin(p) == enrich_person(p, LinkedinKeys)

----------------------------------------------------------------------------
(* The framework takes the result and the caller is free again *)

Return(p) ==
    /\ pc[p] = "done"
    /\ last' = IF gs[p] = "ok" /\ did[p] \cap {"refreshOk", "flowOk"} # {}
               THEN creds[p] ELSE last
    /\ pc' = [pc EXCEPT ![p] = "idle"]
    /\ creds' = [creds EXCEPT ![p] = NoCreds]
    /\ did' = [did EXCEPT ![p] = {}]
    /\ atLoad' = [atLoad EXCEPT ![p] = "none"]
    /\ chk' = [chk EXCEPT ![p] = -1]
    /\ gs' = [gs EXCEPT ![p] = "none"]
    /\ resp' = [resp EXCEPT ![p] = NoResp]
    /\ res' = [res EXCEPT ![p] = NoRes]
    /\ UNCHANGED <<now, tokenFile, credFile, apiKey, body, html_body>>

\* time passes
Tick ==
    /\ now < MaxTime
    /\ now' = now + 1
    /\ UNCHANGED <<tokenFile, credFile, apiKey, pc, creds, did, atLoad, chk, gs,
                   resp, res, last, body, html_body>>

----------------------------------------------------------------------------
(* Specifications *)

\* token.json before the first call: absent, or a record written by an
\* earlier run that is still fresh or already expired
InitialFiles ==
    {NoFile} \cup {to_json([tok |-> 0, exp |-> e, rt |-> r]) :
                      e \in {0, TTL}, r \in BOOLEAN}

InitAuth ==
    /\ now = 0
    /\ tokenFile \in InitialFiles
    /\ credFile \in BOOLEAN
    /\ apiKey \in BOOLEAN
    /\ pc = [p \in Procs |-> "idle"]
    /\ creds = [p \in Procs |-> NoCreds]
    /\ did = [p \in Procs |-> {}]
    /\ atLoad = [p \in Procs |-> "none"]
    /\ chk = [p \in Procs |-> -1]
    /\ gs = [p \in Procs |-> "none"]
    /\ resp = [p \in Procs |-> NoResp]
    /\ res = [p \in Procs |-> NoRes]
    /\ last = NoCreds

Init ==
    /\ InitAuth
    /\ body = <<>>
    /\ html_body = <<>>

\* caller p is the only one with a call in progress
Exclusive(p) == \A q \in Procs \ {p} : pc[q] = "idle"

Next ==
    \/ \E p \in Procs : Exclusive(p) /\ CallSendEmail(p)
    \/ \E p \in Procs : Exclusive(p) /\ LoadToken(p)
    \/ \E p \in Procs : Exclusive(p) /\ CheckValid(p)
    \/ \E p \in Procs : Exclusive(p) /\ Refresh(p)
    \/ \E p \in Procs : Exclusive(p) /\ BeginFlow(p)
    \/ \E p \in Procs : Exclusive(p) /\ EndFlow(p)
    \/ \E p \in Procs : Exclusive(p) /\ OpenToken(p)
    \/ \E p \in Procs : Exclusive(p) /\ WriteToken(p)
    \/ \E p \in Procs : Exclusive(p) /\ Build(p)
    \/ \E p \in Procs : Exclusive(p) /\ Send(p)
    \/ \E p \in Procs : Exclusive(p) /\ find_email_by_name_and_company(p)
    \/ \E p \in Procs : Exclusive(p) /\ find_email_by_linkedin(p)
    \/ \E p \in Procs : Exclusive(p) /\ Return(p)
    \/ Tick

\* one tool call at a time, each run to completion before the next is accepted
Spec == Init /\ [][Next]_vars

ConcStep(p) ==
    \/ CallSendEmail(p)
    \/ LoadToken(p)
    \/ CheckValid(p)
    \/ Refresh(p)
    \/ BeginFlow(p)
    \/ EndFlow(p)
    \/ OpenToken(p)
    \/ WriteToken(p)
    \/ Build(p)
    \/ Send(p)
    \/ find_email_by_name_and_company(p)
    \/ find_email_by_linkedin(p)
    \/ Return(p)

ConcNext == (\E p \in Procs : ConcStep(p)) \/ Tick

\* two calls in progress at once, their steps interleaved freely
SpecConc == Init /\ [][ConcNext]_vars

\* the composition of lines 99-102 applied to every bounded body
InitCompose ==
    /\ InitAuth
    /\ body \in Bodies
    /\ html_body = <<>>

Compose ==
    /\ html_body = <<>>
    /\ html_body' = compose_html(body)
    /\ UNCHANGED <<authVars, body>>

SpecCompose == InitCompose /\ [][Compose]_vars

----------------------------------------------------------------------------
(* Properties *)

Range(f) == {f[i] : i \in DOMAIN f}

\* network operations of get_gmail_service
NetIO == {"refresh", "flow", "build"}

\* caller p obtained its credential by refresh or by the consent flow
Obtained(p) == did[p] \cap {"refreshOk", "flowOk"} # {}

\* number of places where s occurs in t
Count(s, t) ==
    Cardinality({i \in 1..(Len(t) - Len(s) + 1) : SubSeq(t, i, i + Len(s) - 1) = s})

\* C1: every tool call that has finished handed a string back to the
\* framework; no exception left the tool function.
C1_ToolsReturnStrings ==
    \A p \in Procs : pc[p] = "done" => res[p].kind = "str"

\* C2: a get_gmail_service call whose refresh succeeded never enters the
\* interactive consent flow, neither before nor after the refresh.
C2_RefreshSkipsAcquirer ==
    \A p \in Procs :
        "refreshOk" \in did[p] => "flow" \notin did[p] /\ pc[p] \notin {"L74", "L82"}

C2_Witness ==
    \E p \in Procs : "refreshOk" \in did[p] /\ gs[p] = "ok" /\ pc[p] = "done"

\* C3: a call that found no token file, with no client-secret file present,
\* does no network I/O, leaves the token file absent, and when it ends it
\* ends with the FileNotFoundError of line 75.
C3_MissingSecretFailsFirst ==
    \A p \in Procs :
        (atLoad[p] = "absent" /\ ~credFile) =>
            /\ did[p] \cap NetIO = {}
            /\ tokenFile.st = "absent"
            /\ pc[p] \in {"L70", "L74", "done"}
            /\ pc[p] = "done" => gs[p] = "FileNotFoundError"

C3_Witness ==
    \E p \in Procs :
        /\ atLoad[p] = "absent" /\ ~credFile
        /\ pc[p] = "done" /\ gs[p] = "FileNotFoundError" /\ res[p].kind = "str"

\* C4: two callers are never inside run_local_server at the same time.
C4_AcquisitionSerialized ==
    \A p, q \in Procs : p # q => ~(pc[p] = "L82" /\ pc[q] = "L82")

\* C5: the token file is always absent (never written yet) or a complete
\* record, never empty or partially written.
C5_PersistAtomic ==
    tokenFile.st \in {"absent", "json"}

\* C6: when a call that refreshed or acquired has returned the service, the
\* token file holds its record; and a later call that evaluates line 70
\* while the record of the last such call is unexpired neither refreshes nor
\* enters the consent flow.
C6_PersistedThenSkipped ==
    \A p \in Procs :
        /\ (gs[p] = "ok" /\ Obtained(p)) => tokenFile = to_json(creds[p])
        /\ (chk[p] >= 0 /\ last # NoCreds /\ chk[p] < last.exp) =>
              did[p] \cap {"refresh", "flow"} = {} /\ pc[p] \notin {"L72", "L74"}

C6_Witness ==
    \E p \in Procs :
        /\ last # NoCreds /\ chk[p] >= 0 /\ chk[p] < last.exp
        /\ gs[p] = "ok" /\ pc[p] = "done"
        /\ creds[p] = last

\* C7: with the API key set, the provider outcome determines the result:
\* a person with a non-empty email gives "Email found: " and that email; no
\* person, a null person, a missing or an empty email give the not-found
\* sentinel; an HTTP error status gives a string with the status detail; a
\* network error gives a string with the error; and no failure string is
\* the sentinel.
C7_EnrichMapping ==
    \A p \in Procs :
        (pc[p] = "done" /\ resp[p].kind # "none") =>
            LET r == resp[p]
                found == /\ r.hasPerson /\ r.person \notin {"null", "empty"}
                         /\ r.hasEmail /\ r.email \notin {"null", ""}
            IN  /\ apiKey
                /\ (r.kind = "ok" /\ found) => res[p] = Str(<<"Email found: ", r.email>>)
                /\ (r.kind = "ok" /\ ~found) => res[p] = Str(NotFound)
                /\ r.kind \in {"httperr", "neterr"} =>
                      /\ res[p].kind = "str"
                      /\ r.detail \in Range(res[p].val)
                      /\ res[p].val # NotFound
                      /\ Head(res[p].val) # Head(NotFound)
                /\ r.kind = "httperr" => Head(res[p].val) = "HTTP error occurred: "
                /\ r.kind = "neterr" => Head(res[p].val) = "Request error occurred: "

C7_Witness ==
    \E p \in Procs :
        /\ pc[p] = "done" /\ resp[p].kind = "ok" /\ resp[p].email = "a@b.com"
        /\ res[p] = Str(<<"Email found: ", "a@b.com">>)

\* C8 as stated: a composed HTML body holds exactly as many <br> markers as
\* the plain body holds line breaks.
C8_ExactlyN ==
    html_body # <<>> => Count(BR, html_body) = Count(<<"\n">>, body)

\* C8 amended: a composed HTML body holds one <br> marker per line break of
\* the plain body and one more, the marker the wrapper of line 102 puts
\* before </body>.
C8_NPlusOne ==
    html_body # <<>> => Count(BR, html_body) = Count(<<"\n">>, body) + 1

C8_Witness ==
    /\ html_body # <<>>
    /\ Count(<<"\n">>, body) = 2
    /\ "<" \in Range(body)
    /\ Count(BR, html_body) = 3

\* C9: with the client-secret file present, a call whose refresh attempt
\* failed goes on to the consent flow and does not end with the refresh
\* error.
C9_RecoversByAcquisition ==
    \A p \in Procs :
        (pc[p] = "done" /\ credFile /\ "refresh" \in did[p] /\ "refreshOk" \notin did[p]) =>
            "flow" \in did[p] /\ gs[p] # "RefreshError"

\* C10 as stated: every call that returned the service wrote the token file.
C10_AlwaysWrites ==
    \A p \in Procs : gs[p] = "ok" => "write" \in did[p]

\* C10 amended: a call that returned the service wrote the token file
\* exactly when it refreshed or acquired; a call that loaded a valid record
\* neither opened nor wrote the file.
C10_WritesIffObtained ==
    \A p \in Procs :
        gs[p] = "ok" =>
            /\ "write" \in did[p] <=> Obtained(p)
            /\ "open" \in did[p] <=> Obtained(p)

C10_Witness ==
    \E p \in Procs :
        /\ gs[p] = "ok" /\ atLoad[p] = "json" /\ ~Obtained(p)
        /\ "write" \notin did[p] /\ tokenFile = to_json(creds[p])

====
